---- MODULE Spec2Model ----
(***************************************************************************)
(* Model of the token metadata registry of src/src/api.rs: the shared      *)
(* mappings (a HashMap behind an Arc<Mutex<..>>), the loader read_mappings *)
(* and the request handlers single_subject, all_properties, some_property, *)
(* reread_mappings and query, run by concurrent actix-web workers.         *)
(***************************************************************************)
EXTENDS Integers, Sequences, FiniteSets, TLC

(***************************************************************************)
(* Bounds of the model.                                                    *)
(***************************************************************************)
\* Total number of requests the workers serve in one behaviour.
MaxRequests == 3
\* Number of times the environment changes the registry directory.
MaxDiskChanges == 1

\* The worker threads of the HTTP server.
Workers == {"w1", "w2"}
NoWorker == "none"
FirstWorker == "w1"

(***************************************************************************)
(* JSON values (serde_json::Value).  An object is a set of <<name, value>> *)
(* pairs with distinct names; every other JSON value is a scalar.          *)
(***************************************************************************)
Object(fields) == [type |-> "object", fields |-> fields, num |-> 0]
Number(n)      == [type |-> "number", fields |-> {}, num |-> n]
\* Option::None of a map lookup.
Absent         == [type |-> "absent", fields |-> {}, num |-> 0]

\* Generation 1 and generation 2 of an object document, and a document that
\* is valid JSON but not an object.
DocV1  == Object({<<"p1", 1>>, <<"p2", 1>>})
DocV2  == Object({<<"p1", 2>>})
DocNum == Number(7)
Docs   == {DocV1, DocV2, DocNum}

\* serde_json::Value::get(name) with a string index: Some(v) for an object
\* holding the key, None for a missing key and for every non-object value.
ValueGet(v, name) ==
    IF v.type = "object" /\ \E p \in v.fields : p[1] = name
    THEN Number((CHOOSE p \in v.fields : p[1] = name)[2])
    ELSE Absent

(***************************************************************************)
(* The registry directory.  A directory entry is a file name; what the     *)
(* loader finds when it reaches the entry is its content.                  *)
(***************************************************************************)
\* "raw" stands for a file name that is not valid UTF-8.
FileNames == {"a.json", "b.json", "raw"}

\* Subjects that files can produce, and one that no file ever produces.
Stems       == {"a", "b"}
NoStem      == "nostem"
NeverLoaded == "zz"
Subjects    == Stems \cup {NeverLoaded}

\* path.file_stem() followed by to_str(): the base name with the extension
\* stripped; None when the name is not valid UTF-8.
FileStem(f) ==
    CASE f = "a.json" -> "a"
      [] f = "b.json" -> "b"
      [] OTHER        -> NoStem

Content(kind, doc) == [kind |-> kind, doc |-> doc]
Missing    == Content("missing", Absent)
\* Iterating the directory yields an io::Error at this entry.
EntryError == Content("entryerror", Absent)
\* read_to_string fails (permissions, a directory, not UTF-8 text).
Unreadable == Content("unreadable", Absent)
\* The text is not valid JSON.
Malformed  == Content("malformed", Absent)
WellFormed(d) == Content("doc", d)
\* What the environment puts under each name: a.json is rewritten with new
\* documents, b.json is removed or damaged, and the entry without a stem is
\* there or not (the loader never gets to open it).
ContentsOf(f) ==
    CASE f = "a.json" -> {Missing} \cup {WellFormed(d) : d \in Docs}
      [] f = "b.json" -> {Missing, WellFormed(DocV1), Malformed, Unreadable, EntryError}
      [] OTHER        -> {Missing, Unreadable}

VARIABLES
    mappings,     \* AppMutState.mappings: subject -> Value, Absent if no key
    holder,       \* the worker holding the MutexGuard, or NoWorker
    poisoned,     \* the Mutex's poison flag
    dirOk,        \* registry_path can be opened as a directory
    files,        \* file name -> content of the registry directory
    pc,           \* worker -> position in its handler
    req,          \* worker -> the request it serves
    resp,         \* worker -> the response it produced
    paths,        \* worker -> result of read_dir: [ok, todo]
    pending,      \* worker -> subjects of the batch query not yet visited
    nreq,         \* requests started so far
    ndisk,        \* directory changes so far
    \* history variables
    stable,       \* mappings as of the last moment no reload was in progress
    view,         \* worker -> mappings in force when it took the lock
    lockErr,      \* worker -> lock() returned Err to its current request
    loaded,       \* worker -> the mapping its current reload has read so far
    scanned,      \* worker -> <<file, kind>> of the entries its reload visited
    lastLoaded    \* the mapping read by the last reload that completed

vars == <<mappings, holder, poisoned, dirOk, files, pc, req, resp, paths,
          pending, nreq, ndisk, stable, view, lockErr, loaded, scanned,
          lastLoaded>>

env     == <<dirOk, files, ndisk>>
history == <<stable, view, lockErr, loaded, scanned, lastLoaded>>

EmptyMap == [s \in Subjects |-> Absent]
Keys(m)  == {s \in Subjects : m[s] # Absent}
\* HashMap::len
MapLen(m) == Cardinality(Keys(m))

(***************************************************************************)
(* Requests and responses.                                                 *)
(***************************************************************************)
NoProps == [some |-> FALSE, names |-> <<>>]
SomeProps(ns) == [some |-> TRUE, names |-> ns]

Request(kind, subject, name, subjects, properties) ==
    [kind |-> kind, subject |-> subject, name |-> name,
     subjects |-> subjects, properties |-> properties]
NoRequest == Request("none", NeverLoaded, "p1", <<>>, NoProps)

\* status 0: the handler panicked and no response was produced.
\* subject and body carry the JSON body of a 200 response (subject only for
\* the pair answered by some_property), list the "subjects" array of query.
Response(status, subject, body, list) ==
    [status |-> status, subject |-> subject, body |-> body, list |-> list]
NoResponse          == Response(0, "", Absent, <<>>)
Ok(body)            == Response(200, "", body, <<>>)
OkPair(subject, v)  == Response(200, subject, v, <<>>)
OkList(list)        == Response(200, "", Absent, list)
\* HttpResponse::Ok().body("Reread contents")
RereadContents      == Response(200, "", Absent, <<>>)
NotFound            == Response(404, "", Absent, <<>>)
InternalServerError == Response(500, "", Absent, <<>>)

\* The subjects the point lookups are sent: one that a file can produce and
\* one that is never loaded.
RequestSubjects == {"a", NeverLoaded}
\* The property names GET /metadata/{subject}/properties/{name} is sent:
\* one that DocV1 holds and DocV2 and DocNum do not.
RequestNames    == {"p2"}
\* The payloads of POST /metadata/query the workers send.
QuerySubjects   == {<<"b", NeverLoaded, "a", "b">>}
QueryProperties == {NoProps, SomeProps(<<"p1", "p3">>)}

NoPaths == [ok |-> TRUE, todo |-> {}]

Init ==
    /\ mappings = EmptyMap
    /\ holder = NoWorker
    /\ poisoned = FALSE
    /\ dirOk = TRUE
    /\ files \in [FileNames -> {Missing, WellFormed(DocV1)}]
    /\ files["raw"] = Missing
    /\ pc = [w \in Workers |-> "idle"]
    /\ req = [w \in Workers |-> NoRequest]
    /\ resp = [w \in Workers |-> NoResponse]
    /\ paths = [w \in Workers |-> NoPaths]
    /\ pending = [w \in Workers |-> <<>>]
    /\ nreq = 0
    /\ ndisk = 0
    /\ stable = EmptyMap
    /\ view = [w \in Workers |-> EmptyMap]
    /\ lockErr = [w \in Workers |-> FALSE]
    /\ loaded = [w \in Workers |-> EmptyMap]
    /\ scanned = [w \in Workers |-> {}]
    /\ lastLoaded = EmptyMap

(***************************************************************************)
(* The Mutex.  lock() blocks while another thread holds the guard; it      *)
(* returns Err once a thread has panicked while holding the guard.         *)
(***************************************************************************)
\* A lock that does not exclude: lock() returns at once whoever holds the
\* guard.
CanLockWithoutExclusion(w) == TRUE

CanLock(w) == holder = NoWorker

\* A request is taken by a worker that is not serving one; a worker whose
\* handler panicked serves again (the panic unwinds the handler's task, and a
\* thread that died is replaced by one like it).  The workers are
\* interchangeable: the first request goes to the first.
StartRequest(w) ==
    /\ pc[w] \in {"idle", "done", "aborted"}
    /\ w # FirstWorker => pc[FirstWorker] # "idle"
    /\ nreq < MaxRequests
    /\ nreq' = nreq + 1

\* A new request starts with no history of the worker's previous one.
ResetHistory(w) ==
    /\ view' = [view EXCEPT ![w] = EmptyMap]
    /\ lockErr' = [lockErr EXCEPT ![w] = FALSE]
    /\ loaded' = [loaded EXCEPT ![w] = EmptyMap]
    /\ scanned' = [scanned EXCEPT ![w] = {}]

\* A panic unwinds the handler: no response is produced, and a guard dropped
\* while unwinding poisons the Mutex.
Panic(w) ==
    /\ pc' = [pc EXCEPT ![w] = "aborted"]
    /\ resp' = [resp EXCEPT ![w] = NoResponse]
    /\ poisoned' = (poisoned \/ holder = w)
    /\ holder' = IF holder = w THEN NoWorker ELSE holder

(***************************************************************************)
(* GET /reread and the loader read_mappings.                               *)
(***************************************************************************)
\* std::fs::read_dir(registry_path): the entries of the directory, or Err.
\* (PathBuf::from_str cannot fail, so the early return of read_mappings is
\* never taken.)
ReadDir ==
    IF dirOk
    THEN [ok |-> TRUE, todo |-> {f \in FileNames : files[f] # Missing}]
    ELSE [ok |-> FALSE, todo |-> {}]

\* std::fs::read_to_string(&path) returns Ok.
Readable(c) == c.kind \in {"malformed", "doc"}
\* serde_json::from_str(&raw_json) returns Ok.
ParsesAsJson(c) == c.kind = "doc"

\* The handler calls read_mappings, which opens the directory before it
\* asks for the lock.
reread_mappings(w) ==
    /\ StartRequest(w)
    /\ req' = [req EXCEPT ![w] = Request("reread", NeverLoaded, "p1", <<>>, NoProps)]
    /\ resp' = [resp EXCEPT ![w] = NoResponse]
    /\ paths' = [paths EXCEPT ![w] = ReadDir]
    /\ pc' = [pc EXCEPT ![w] = "lock"]
    /\ ResetHistory(w)
    /\ UNCHANGED <<mappings, holder, poisoned, env, pending, stable, lastLoaded>>

\* if let Ok(mut mtx) = mappings.lock() { .. } else { log::error!(..) }
read_mappings_lock(w) ==
    /\ pc[w] = "lock"
    /\ req[w].kind = "reread"
    /\ CanLock(w)
    /\ IF poisoned
       THEN /\ pc' = [pc EXCEPT ![w] = "done"]
            /\ resp' = [resp EXCEPT ![w] = RereadContents]
            /\ UNCHANGED <<holder, view>>
       ELSE /\ holder' = w
            /\ pc' = [pc EXCEPT ![w] = "scan"]
            /\ view' = [view EXCEPT ![w] = stable]
            /\ UNCHANGED resp
    /\ lockErr' = [lockErr EXCEPT ![w] = poisoned]
    /\ UNCHANGED <<mappings, poisoned, env, req, paths, pending, nreq,
                   stable, loaded, scanned, lastLoaded>>

\* The entry the loader reaches panics one of the expects of the loop:
\* the entry is an io::Error, or its name yields no UTF-8 stem.
EntryPanics(f) == files[f] = EntryError \/ FileStem(f) = NoStem

\* A loader that inserts JSON null for a file it could not read or parse.
InsertNullOnError(m, f, c) ==
    [m EXCEPT ![FileStem(f)] =
        IF Readable(c) /\ ParsesAsJson(c) THEN c.doc ELSE Number(0)]

\* A loader that takes a key already in the map for a duplicate and drops
\* it instead of overwriting it.
InsertOrDropDuplicate(m, f, c) ==
    IF Readable(c) /\ ParsesAsJson(c)
    THEN [m EXCEPT ![FileStem(f)] = IF @ = Absent THEN c.doc ELSE Absent]
    ELSE m

\* The mapping after mtx.insert(key, json_data), done only for a file that
\* was read and parsed.
Insert(m, f, c) ==
    IF Readable(c) /\ ParsesAsJson(c)
    THEN [m EXCEPT ![FileStem(f)] = c.doc]
    ELSE m

\* One iteration of the for loop, holding the guard.
read_mappings_entry(w) ==
    /\ pc[w] = "scan"
    /\ paths[w].ok
    /\ \E f \in paths[w].todo :
         /\ ~EntryPanics(f)
         /\ mappings' = Insert(mappings, f, files[f])
         /\ loaded' = [loaded EXCEPT ![w] = Insert(loaded[w], f, files[f])]
         /\ scanned' = [scanned EXCEPT ![w] = @ \cup {<<f, files[f].kind>>}]
         /\ paths' = [paths EXCEPT ![w].todo = @ \ {f}]
    /\ UNCHANGED <<holder, poisoned, env, pc, req, resp, pending, nreq,
                   stable, view, lockErr, lastLoaded>>

\* paths.expect("Not a ReadDir Iterator") on a directory that could not be
\* opened: a panic while the guard is held.
read_mappings_panic_dir(w) ==
    /\ pc[w] = "scan"
    /\ ~paths[w].ok
    /\ Panic(w)
    /\ UNCHANGED <<mappings, env, req, paths, pending, nreq, history>>

\* path.expect("Not a DirEntry"), expect("No file_stem") and
\* expect("Failed creating str"): a panic while the guard is held.
read_mappings_panic_entry(w) ==
    /\ pc[w] = "scan"
    /\ paths[w].ok
    /\ \E f \in paths[w].todo : EntryPanics(f)
    /\ Panic(w)
    /\ UNCHANGED <<mappings, env, req, paths, pending, nreq, history>>

\* The loop is over: log the size, drop the guard, answer 200.
read_mappings_end(w) ==
    /\ pc[w] = "scan"
    /\ paths[w].ok
    /\ paths[w].todo = {}
    /\ holder' = NoWorker
    /\ pc' = [pc EXCEPT ![w] = "done"]
    /\ resp' = [resp EXCEPT ![w] = RereadContents]
    /\ stable' = mappings
    /\ lastLoaded' = loaded[w]
    /\ UNCHANGED <<mappings, poisoned, env, req, paths, pending, nreq,
                   view, lockErr, loaded, scanned>>

(***************************************************************************)
(* The read handlers.  Each takes the lock first; its guard lives until    *)
(* the handler returns.                                                    *)
(***************************************************************************)
\* A reader's view is the mapping in force when it asked for the lock; it
\* keeps nothing of a reload the worker served before.
ReaderHistory(w) ==
    /\ view' = [view EXCEPT ![w] = stable]
    /\ lockErr' = [lockErr EXCEPT ![w] = poisoned]
    /\ loaded' = [loaded EXCEPT ![w] = EmptyMap]
    /\ scanned' = [scanned EXCEPT ![w] = {}]
    /\ paths' = [paths EXCEPT ![w] = NoPaths]

\* match mtx.get(&subject): Some(d) answers 200 with d, None answers 404.
SubjectResponse(m, s) == IF m[s] # Absent THEN Ok(m[s]) ELSE NotFound

\* match app_data.mappings.lock() { Ok(mtx) => .., Err(e) => 500 }
LockedOrServerError(r) == IF poisoned THEN InternalServerError ELSE r

\* The answer of GET /metadata/{subject} in the current state.
Get(s) == LockedOrServerError(SubjectResponse(mappings, s))

\* A lookup that takes the entry out of the map (HashMap::remove).
RemovedByGet(m, s) == [m EXCEPT ![s] = Absent]

\* The map after mtx.get(&subject): get borrows the map and changes nothing.
AfterGet(m, s) == m

\* A handler that locks, looks one subject up and returns does nothing
\* another thread can see in between: it is one step.
Lookup(w, r, response) ==
    /\ StartRequest(w)
    /\ CanLock(w)
    /\ req' = [req EXCEPT ![w] = r]
    /\ resp' = [resp EXCEPT ![w] = response]
    /\ pc' = [pc EXCEPT ![w] = "done"]
    /\ mappings' = IF poisoned THEN mappings ELSE AfterGet(mappings, r.subject)
    /\ ReaderHistory(w)
    /\ UNCHANGED <<holder, poisoned, env, pending, stable, lastLoaded>>

\* GET /metadata/{subject}
single_subject(w) ==
    \E s \in RequestSubjects :
        Lookup(w, Request("single", s, "p1", <<>>, NoProps), Get(s))

\* GET /metadata/{subject}/properties
all_properties(w) ==
    \E s \in RequestSubjects :
        Lookup(w, Request("all", s, "p1", <<>>, NoProps),
               LockedOrServerError(SubjectResponse(mappings, s)))

\* meta.get(name): Some(v) answers 200 with the pair, None answers 404.
PropertyResponse(meta, s, n) ==
    IF ValueGet(meta, n) # Absent THEN OkPair(s, ValueGet(meta, n)) ELSE NotFound

\* mtx.get(&subject).expect("Could not find it ") unwraps the lookup.
Unwraps(m, s) == m[s] # Absent

\* GET /metadata/{subject}/properties/{name}: an absent subject panics
\* while the guard is held, which poisons the Mutex.
some_property(w) ==
    \E s \in RequestSubjects, n \in RequestNames :
        IF ~poisoned /\ ~Unwraps(mappings, s)
        THEN /\ StartRequest(w)
             /\ CanLock(w)
             /\ req' = [req EXCEPT ![w] = Request("property", s, n, <<>>, NoProps)]
             /\ pc' = [pc EXCEPT ![w] = "aborted"]
             /\ resp' = [resp EXCEPT ![w] = NoResponse]
             /\ poisoned' = TRUE
             /\ mappings' = AfterGet(mappings, s)
             /\ ReaderHistory(w)
             /\ UNCHANGED <<holder, env, pending, stable, lastLoaded>>
        ELSE Lookup(w, Request("property", s, n, <<>>, NoProps),
                    LockedOrServerError(PropertyResponse(mappings[s], s, n)))

\* The handler returns its response and drops the guard.
Return(w, r) ==
    /\ resp' = [resp EXCEPT ![w] = r]
    /\ pc' = [pc EXCEPT ![w] = "done"]
    /\ holder' = NoWorker
    /\ UNCHANGED poisoned

\* POST /metadata/query: lock().expect("Error acquiring mutex lock") panics
\* on a poisoned Mutex, otherwise the guard is held for the whole loop.
query_lock(w) ==
    \E subs \in QuerySubjects, props \in QueryProperties :
        /\ StartRequest(w)
        /\ CanLock(w)
        /\ req' = [req EXCEPT ![w] = Request("query", NeverLoaded, "p1", subs, props)]
        /\ IF poisoned
           THEN /\ Panic(w)
                /\ UNCHANGED pending
           ELSE /\ holder' = w
                /\ pc' = [pc EXCEPT ![w] = "locked"]
                /\ resp' = [resp EXCEPT ![w] = NoResponse]
                /\ pending' = [pending EXCEPT ![w] = subs]
                /\ UNCHANGED poisoned
        /\ ReaderHistory(w)
        /\ UNCHANGED <<mappings, env, stable, lastLoaded>>

\* A projection that answers JSON null for a requested name the document
\* does not hold.
ProjectWithNulls(subj, props) ==
    Object({<<props[i], ValueGet(subj, props[i]).num>> : i \in DOMAIN props})

\* The new subject built from the requested properties the document holds.
Project(subj, props) ==
    Object({<<props[i], ValueGet(subj, props[i]).num>> :
              i \in {j \in DOMAIN props : ValueGet(subj, props[j]) # Absent}})

\* What one iteration pushes for a subject that was found.
Entry(subj, properties) ==
    IF properties.some THEN Project(subj, properties.names) ELSE subj

\* A loop that pushes JSON null for a subject it does not find.
PushNullForAbsent(list, m, subject, properties) ==
    Append(list, IF m[subject] # Absent
                 THEN Entry(m[subject], properties) ELSE Number(0))

\* match mtx.get(subject): Some(subj) pushes its entry, None pushes nothing.
Push(list, m, subject, properties) ==
    IF m[subject] # Absent
    THEN Append(list, Entry(m[subject], properties))
    ELSE list

\* One iteration of the loop over payload.subjects.
query_iter(w) ==
    /\ pc[w] = "locked"
    /\ req[w].kind = "query"
    /\ pending[w] # <<>>
    /\ resp' = [resp EXCEPT ![w].list =
                  Push(@, mappings, Head(pending[w]), req[w].properties)]
    /\ pending' = [pending EXCEPT ![w] = Tail(@)]
    /\ mappings' = AfterGet(mappings, Head(pending[w]))
    /\ UNCHANGED <<holder, poisoned, env, pc, req, paths, nreq, history>>

\* HttpResponse::Ok().json({"subjects": subjects})
query(w) ==
    /\ pc[w] = "locked"
    /\ req[w].kind = "query"
    /\ pending[w] = <<>>
    /\ Return(w, OkList(resp[w].list))
    /\ UNCHANGED <<mappings, env, req, paths, pending, nreq, history>>

(***************************************************************************)
(* The environment: the files under registry_path change behind the        *)
(* server's back.                                                          *)
(***************************************************************************)
WriteFile ==
    /\ ndisk < MaxDiskChanges
    /\ \E f \in FileNames : \E c \in ContentsOf(f) :
         /\ files[f] # c
         /\ files' = [files EXCEPT ![f] = c]
    /\ ndisk' = ndisk + 1
    /\ UNCHANGED <<mappings, holder, poisoned, dirOk, pc, req, resp, paths,
                   pending, nreq, history>>

\* The directory is removed or replaced by a file, or restored.
ReplaceDir ==
    /\ ndisk < MaxDiskChanges
    /\ dirOk' = ~dirOk
    /\ ndisk' = ndisk + 1
    /\ UNCHANGED <<mappings, holder, poisoned, files, pc, req, resp, paths,
                   pending, nreq, history>>

\* The steps of a request a worker has taken.
Continue(w) ==
    \/ read_mappings_lock(w)
    \/ read_mappings_entry(w)
    \/ read_mappings_panic_dir(w)
    \/ read_mappings_panic_entry(w)
    \/ read_mappings_end(w)
    \/ query_iter(w)
    \/ query(w)

Next ==
    \/ \E w \in Workers : reread_mappings(w)
    \/ \E w \in Workers : single_subject(w)
    \/ \E w \in Workers : all_properties(w)
    \/ \E w \in Workers : some_property(w)
    \/ \E w \in Workers : query_lock(w)
    \/ \E w \in Workers : Continue(w)
    \/ WriteFile
    \/ ReplaceDir

Spec == Init /\ [][Next]_vars

(***************************************************************************)
(* Properties.                                                             *)
(***************************************************************************)
\* The step in which worker w's reload leaves the loop and returns.
ReloadCompletes(w) == pc[w] = "scan" /\ pc'[w] = "done"
\* The step in which worker w's reload ends, one way or the other.
ReloadEnds(w) == pc[w] = "scan" /\ pc'[w] # "scan"
\* Worker w has served its request to the end (a response or a panic).
Finished(w) == req[w].kind # "none" /\ pc[w] \in {"done", "aborted"}

\* The well-formed files a reload has read, and the other ones.
WellFormedFiles(w) == {e \in scanned[w] : e[2] = "doc"}
SkippedFiles(w)    == {e \in scanned[w] : e[2] \in {"malformed", "unreadable"}}

\* The batch of query over one mapping m: the entries of the subjects of
\* subs that m holds, in the order of subs.
RECURSIVE Batch(_, _, _)
Batch(m, subs, properties) ==
    IF subs = <<>> THEN <<>>
    ELSE LET rest == Batch(m, Tail(subs), properties)
         IN  IF m[Head(subs)] # Absent
             THEN <<Entry(m[Head(subs)], properties)>> \o rest
             ELSE rest

\* The subjects a batch query has visited so far.
Visited(w) == SubSeq(req[w].subjects, 1, Len(req[w].subjects) - Len(pending[w]))

\* C1: strict replace on reload.  When a reload completes, every subject for
\* which the scanned directory held no well-formed file is not found by get:
\* the registry is exactly the newly loaded mapping.
C1_StrictReplace ==
    [][\A w \in Workers :
          ReloadCompletes(w) =>
              /\ \A s \in Subjects : loaded[w][s] = Absent => Get(s)' = NotFound
              /\ mappings' = loaded[w]]_vars

\* C2: a property lookup for a subject that is absent from the registry is
\* answered not-found, whatever the name and the registry state; the handler
\* does not abort.  (The code never removes a key, so a subject absent now
\* was absent when the request was served.)
C2_AbsentSubjectNotFound ==
    \A w \in Workers :
        (Finished(w) /\ req[w].kind = "property"
            /\ mappings[req[w].subject] = Absent)
        => (pc[w] = "done" /\ resp[w] = NotFound)

\* C3: a reload whose root path cannot be read as a directory leaves the
\* mapping unchanged: no subject is added or removed, and every subject that
\* was retrievable before is retrievable afterwards with the same document.
C3_InvalidPathKeepsSnapshot ==
    [][\A w \in Workers :
          (ReloadEnds(w) /\ ~paths[w].ok) =>
              /\ mappings' = mappings
              /\ \A s \in Subjects :
                     mappings[s] # Absent => Get(s)' = Ok(mappings[s])]_vars

\* The Mutex is never un-poisoned: once lock() returns Err it does so for
\* good, for every later request.
PoisonIsPermanent == [][poisoned => poisoned']_vars

\* C4: the registry is never permanently unavailable.  By PoisonIsPermanent a
\* state in which get is rejected is a state from which it is rejected
\* forever, so the claim is that no reachable state rejects get: a loaded
\* subject can still be retrieved with its document.
C4_NeverPermanentlyUnavailable ==
    \A s \in Subjects : mappings[s] # Absent => Get(s) = Ok(mappings[s])

\* C5: every endpoint that reads the registry answers 500 when lock() fails,
\* and none of them aborts.
ReadKinds == {"single", "all", "property", "query"}

C5_LockErrorIsServerError ==
    \A w \in Workers :
        (Finished(w) /\ req[w].kind \in ReadKinds /\ lockErr[w])
        => (pc[w] = "done" /\ resp[w] = InternalServerError)

\* C6: no read observes a partially applied reload.  What a get returns, and
\* what a batch query has collected at any point of its pass, is what the
\* mapping published before the request took the lock gives: never a state
\* in which only some of a reload's entries are inserted.
C6_NoPartialReload ==
    \A w \in Workers :
        /\ (Finished(w) /\ req[w].kind = "single" /\ ~lockErr[w])
           => resp[w] = SubjectResponse(view[w], req[w].subject)
        /\ (req[w].kind = "query" /\ pc[w] \in {"locked", "done"})
           => resp[w].list = Batch(view[w], Visited(w), req[w].properties)

\* A batch query returned two documents while the other worker's reload,
\* started on a changed directory, waits for the lock.
C6_Witness ==
    \E w \in Workers, r \in Workers :
        /\ pc[w] = "done" /\ req[w].kind = "query"
        /\ resp[w].status = 200 /\ Len(resp[w].list) = 2
        /\ pc[r] = "lock" /\ req[r].kind = "reread"
        /\ paths[r].ok /\ paths[r].todo # {}
        /\ ndisk > 0

\* C7: the loader does not hold the lock readers depend on while it scans
\* the directory and reads and parses the files.
C7_NoLockWhileScanning ==
    \A w \in Workers :
        ~(pc[w] = "scan" /\ paths[w].todo # {} /\ holder = w)

\* C8: after a reload has completed, a get for a subject whose file the
\* reload read returns the document of that reload (a later reload that
\* completed replaces lastLoaded; one in progress holds the lock).
C8_GetSeesLastReload ==
    \A s \in Subjects :
        (lastLoaded[s] # Absent /\ holder = NoWorker)
        => Get(s) = Ok(lastLoaded[s])

\* C9: file-level failures never escape the loader.  A reload whose
\* directory could be opened completes, and its request is answered 200.
C9_FileFailuresAbsorbed ==
    \A w \in Workers :
        (Finished(w) /\ req[w].kind = "reread" /\ paths[w].ok)
        => (pc[w] = "done" /\ resp[w] = RereadContents)

\* C10: a reload that starts from an empty registry and reads N well-formed
\* files with distinct stems, skipping the malformed and unreadable ones,
\* leaves a registry of exactly N keys: the stems of the N files.
C10_LoadCount ==
    [][\A w \in Workers :
          (/\ ReloadCompletes(w)
           /\ view[w] = EmptyMap
           /\ \A e, g \in WellFormedFiles(w) :
                  FileStem(e[1]) = FileStem(g[1]) => e = g)
          => /\ MapLen(mappings') = Cardinality(WellFormedFiles(w))
             /\ Keys(mappings') = {FileStem(e[1]) : e \in WellFormedFiles(w)}]_vars

\* A reload that started from the empty registry has completed after
\* reading a well-formed file and skipping a damaged one.
C10_Witness ==
    \E w \in Workers :
        /\ pc[w] = "done" /\ req[w].kind = "reread" /\ ~lockErr[w]
        /\ view[w] = EmptyMap
        /\ WellFormedFiles(w) # {}
        /\ SkippedFiles(w) # {}
        /\ Keys(mappings) = {FileStem(e[1]) : e \in WellFormedFiles(w)}

\* The subjects of subs that the mapping m holds, in the order of subs.
Found(m, subs) == SelectSeq(subs, LAMBDA s : m[s] # Absent)

\* list holds one entry per position of subs whose subject is in m, in order.
IsRestriction(list, m, subs, properties) ==
    /\ Len(list) = Len(Found(m, subs))
    /\ \A i \in 1..Len(list) :
           list[i] = Entry(m[Found(m, subs)[i]], properties)

\* C11: batch query order and best-effort drop.  The list a batch query
\* builds, after each iteration and in its 200 response, is the list of the
\* subjects it visited restricted to those the registry holds, in the same
\* order, duplicates kept, with nothing at all for an absent subject.
C11_BatchOrderAndDrop ==
    \A w \in Workers :
        /\ (pc[w] = "locked" /\ req[w].kind = "query")
           => IsRestriction(resp[w].list, mappings, Visited(w), req[w].properties)
        /\ (pc[w] = "done" /\ req[w].kind = "query" /\ resp[w].status = 200)
           => IsRestriction(resp[w].list, view[w], req[w].subjects,
                            req[w].properties)

\* A batch query has answered three entries for four subjects: the absent
\* one is dropped, the duplicate is answered twice, the order is kept.
C11_Witness ==
    \E w \in Workers :
        /\ pc[w] = "done" /\ req[w].kind = "query" /\ resp[w].status = 200
        /\ Len(req[w].subjects) = 4
        /\ req[w].subjects[1] = req[w].subjects[4]
        /\ view[w][req[w].subjects[2]] = Absent
        /\ Len(resp[w].list) = 3
        /\ resp[w].list[1] = resp[w].list[3]
        /\ resp[w].list[2] # resp[w].list[1]

\* The names a properties list requests.
Requested(properties) == {properties.names[i] : i \in DOMAIN properties.names}

\* entry is what the batch answers for the document doc: the document
\* itself without a properties list, and with one the object of exactly the
\* pairs of doc whose name is requested.
IsProjection(entry, doc, properties) ==
    IF properties.some
    THEN /\ entry.type = "object"
         /\ entry.fields = {f \in doc.fields : f[1] \in Requested(properties)}
    ELSE entry = doc

\* C12: batch projection.  Every entry of the list a batch query builds is,
\* with a properties list, the object of exactly the requested names that
\* are keys of the subject's document, each with the document's value (a
\* requested name the document lacks is omitted, an unrequested key never
\* appears), and without a properties list the full document.
C12_BatchProjection ==
    \A w \in Workers :
        /\ (pc[w] = "locked" /\ req[w].kind = "query")
           => \A i \in 1..Len(resp[w].list) :
                  IsProjection(resp[w].list[i],
                               mappings[Found(mappings, Visited(w))[i]],
                               req[w].properties)
        /\ (pc[w] = "done" /\ req[w].kind = "query" /\ resp[w].status = 200)
           => \A i \in 1..Len(resp[w].list) :
                  IsProjection(resp[w].list[i],
                               view[w][Found(view[w], req[w].subjects)[i]],
                               req[w].properties)

\* A batch query with a properties list has answered an entry that keeps
\* one key of the document, leaves an unrequested key out and omits a
\* requested name the document lacks; another has answered a full document.
C12_Witness ==
    /\ \E w \in Workers :
           /\ pc[w] = "done" /\ req[w].kind = "query" /\ resp[w].status = 200
           /\ req[w].properties.some
           /\ \E i \in 1..Len(resp[w].list) :
                  LET doc == view[w][Found(view[w], req[w].subjects)[i]]
                  IN  /\ resp[w].list[i].fields # {}
                      /\ resp[w].list[i].fields # doc.fields
                      /\ \E n \in Requested(req[w].properties) :
                             ValueGet(doc, n) = Absent
    /\ \E w \in Workers :
           /\ pc[w] = "done" /\ req[w].kind = "query" /\ resp[w].status = 200
           /\ ~req[w].properties.some
           /\ \E i \in 1..Len(resp[w].list) : resp[w].list[i] \in Docs

\* C13: a get for a subject that was never loaded answers not-found in every
\* reachable state, after any sequence of reloads and requests: it never
\* aborts and never answers anything else.
C13_NeverLoadedIsNotFound ==
    \A w \in Workers :
        (Finished(w) /\ req[w].kind = "single" /\ req[w].subject = NeverLoaded)
        => (pc[w] = "done" /\ resp[w] = NotFound)

\* C14: a reload that fails because of the root path or because the shared
\* lock cannot be acquired is reported to its caller as something other
\* than a successful reload: the /reread response differs from the response
\* of a reload that succeeded.
C14_ReloadFailureIsReported ==
    \A w \in Workers :
        (Finished(w) /\ req[w].kind = "reread" /\ (lockErr[w] \/ ~paths[w].ok))
        => resp[w] # RereadContents

\* The document of subject s in mapping m is a key-value map holding name n.
HasProperty(m, s, n) ==
    m[s] # Absent /\ m[s].type = "object" /\ \E f \in m[s].fields : f[1] = n

\* C15: the single-property endpoint answers 200 with the pair (subject,
\* value) exactly when the subject is in the registry and its document is a
\* key-value map holding the requested name; when the subject is there but
\* the name is not, or the document is not a map, it answers not-found.
C15_PropertyOrNotFound ==
    \A w \in Workers :
        (Finished(w) /\ req[w].kind = "property")
        => LET s == req[w].subject
               n == req[w].name
           IN  /\ (resp[w].status = 200) <=> HasProperty(view[w], s, n)
               /\ HasProperty(view[w], s, n)
                  => resp[w] = OkPair(s, Number(
                         (CHOOSE f \in view[w][s].fields : f[1] = n)[2]))
               /\ (view[w][s] # Absent /\ ~HasProperty(view[w], s, n))
                  => resp[w] = NotFound

\* Worker w takes a step of a read operation: it serves a get, an
\* all-properties, a single-property or a batch query request.
ReadStep(w) ==
    /\ req'[w].kind \in ReadKinds
    /\ <<pc[w], req[w], resp[w], pending[w]>>
           # <<pc'[w], req'[w], resp'[w], pending'[w]>>

\* Worker w takes a step of the loop of a reload, holding the lock.
ReloadStep(w) ==
    /\ req[w].kind = "reread" /\ pc[w] = "scan" /\ holder = w
    /\ paths'[w] # paths[w]

\* C16: only reload mutates the registry.  Every step of a read operation,
\* whether it finds its subject or not, leaves the mapping and every stored
\* document unchanged, and every step that changes the mapping is a step of
\* the loop of a reload.
C16_OnlyReloadMutates ==
    [][/\ (\E w \in Workers : ReadStep(w)) => mappings' = mappings
       /\ mappings' # mappings => \E w \in Workers : ReloadStep(w)]_vars

\* Over a loaded registry a batch query has found some of its subjects and
\* missed another, and the mapping is still the one it locked.
C16_Witness ==
    /\ mappings # EmptyMap
    /\ \E w \in Workers :
           /\ pc[w] = "done" /\ req[w].kind = "query" /\ resp[w].status = 200
           /\ Len(resp[w].list) \in 1..(Len(req[w].subjects) - 1)
           /\ view[w] = mappings

\* No file of the directory offers a document for subject s any more: its
\* file was deleted or has become malformed.
FileGone(s) ==
    \A f \in FileNames :
        FileStem(f) = s => files[f].kind \in {"missing", "malformed"}

\* The set of subjects of the mapping never shrinks, and a stored document
\* only changes in a step of the loop of a reload.
SubjectsAccumulate ==
    [][/\ Keys(mappings) \subseteq Keys(mappings')
       /\ mappings' # mappings => \E w \in Workers : ReloadStep(w)]_vars

\* C17: accumulate on reload.  The set of subjects of the registry never
\* shrinks, and a subject whose file was deleted or became malformed, and
\* which the last completed reload therefore did not load, remains
\* retrievable: get answers 200 with its last loaded document.
C17_AccumulateOnReload ==
    /\ SubjectsAccumulate
    /\ [](\A s \in Subjects :
            (/\ mappings[s] # Absent
             /\ holder = NoWorker
             /\ lastLoaded[s] = Absent
             /\ FileGone(s))
            => Get(s) = Ok(mappings[s]))

\* A subject whose file is gone and which the last completed reload did not
\* load is still in the mapping.
StaleSubjectKept ==
    \E s \in Subjects :
        /\ mappings[s] # Absent /\ holder = NoWorker /\ FileGone(s)
        /\ lastLoaded[s] = Absent /\ lastLoaded # EmptyMap
        /\ Get(s) = Ok(mappings[s])

\* The mapping m after the insertions l of one reload: every subject l
\* loaded has l's document, every other subject keeps m's.
Override(m, l) == [s \in Subjects |-> IF l[s] # Absent THEN l[s] ELSE m[s]]

\* Worker w is inside the block guarded by the mapping lock.
InLock(w) == pc[w] \in {"scan", "locked"}

\* C18: concurrent reloads are serialized.  At most one worker is inside
\* the locked block at any time; while a reload is in its loop the mapping
\* is the one it found when it took the lock overridden by its own
\* insertions alone, so the insertions of two reloads never interleave; and
\* whenever the lock is free and sound the mapping is the one the last
\* completed reload published, which is what the next reload starts from:
\* two reloads leave the mapping of one run after the other, the later
\* one winning.
C18_ReloadsSerialized ==
    /\ \A w, r \in Workers : (InLock(w) /\ InLock(r)) => w = r
    /\ \A w \in Workers :
           (req[w].kind = "reread" /\ pc[w] = "scan")
           => /\ holder = w
              /\ view[w] = stable
              /\ mappings = Override(view[w], loaded[w])
    /\ (holder = NoWorker /\ ~poisoned) => mappings = stable

\* Two reloads are in flight at once: one holds the lock and has inserted a
\* document, the other has listed the directory and waits for the lock.
C18_Witness ==
    \E w, r \in Workers :
        /\ w # r
        /\ req[w].kind = "reread" /\ pc[w] = "scan" /\ loaded[w] # EmptyMap
        /\ req[r].kind = "reread" /\ pc[r] = "lock" /\ paths[r].todo # {}

\* C19: reload is idempotent over an unchanged directory.  A reload that
\* completes after an earlier completed reload, over a directory that has
\* not changed, reads the same documents as the earlier one; and a reload
\* that reads the same documents as the last completed one leaves the
\* mapping as it found it, so that every get answers as before.
C19_ReloadIdempotent ==
    [][\A w \in Workers :
          (ReloadCompletes(w) /\ lastLoaded # EmptyMap)
          => /\ ndisk = 0 => loaded[w] = lastLoaded
             /\ loaded[w] = lastLoaded
                => /\ mappings' = view[w]
                   /\ \A s \in Subjects :
                          Get(s)' = SubjectResponse(view[w], s)]_vars

\* Over a directory that never changed, a second reload has read again
\* the documents the first completed reload loaded and is about to return.
C19_Witness ==
    \E w \in Workers :
        /\ req[w].kind = "reread" /\ pc[w] = "scan" /\ paths[w].todo = {}
        /\ ndisk = 0
        /\ lastLoaded # EmptyMap
        /\ loaded[w] = lastLoaded
        /\ mappings = view[w]

====
